---- MODULE Spec2Model ----
(***************************************************************************)
(* A model of the shared-memory ring buffer of src/common/rbuf/src/main.rs *)
(* (RingBufferHeader, Consumer::create, Producer::open, Producer::push,    *)
(* Consumer::pop).  One named segment holds the header (head, tail,        *)
(* capacity) and the slot array.  A push and a pop are each a sequence of  *)
(* steps: two index loads (the second one followed by the full/empty       *)
(* test), the slot access, and the index store.                            *)
(***************************************************************************)
EXTENDS Integers, Sequences, FiniteSets, TLC

(***************************************************************************)
(* Bounds of the model.                                                    *)
(***************************************************************************)
\* largest requested capacity handed to create by the ring specifications
MaxCap == 2
\* largest value pushed by the ring specifications (items are 0..MaxVal)
MaxVal == 2
\* number of completed push/pop calls after which no further call starts
MaxCalls == 5
\* the same bound for the specification with two producer handles
MaxCallsTwo == 3
\* number of items the polling producer pushes and the polling consumer pops
MaxItems == 3

(***************************************************************************)
(* Program constants.  usize is scaled down to UsizeBits bits so that the  *)
(* unchecked arithmetic of create can be enumerated; the header is three   *)
(* usize fields, a record is two bytes.                                    *)
(***************************************************************************)
UsizeBits == 6
HeaderSize == 3
RecordSize == 2
\* create(SHMEM_ID, 10) of main
ScenarioCap == 10

UsizeMod == 2 ^ UsizeBits
Usize == 0 .. (UsizeMod - 1)
Values == 0 .. MaxVal
Capacities == 0 .. MaxCap

\* the content of a slot that was never written (MaybeUninit)
Uninit == -1
\* no item (the payload of Ok(()) and of None)
NoItem == -2

VARIABLES
    shm,        \* the named segment: exists, head, tail, capacity, size, slots
    requested,  \* the capacity argument of the create call that made the segment
    prod,       \* the producer process: pc and the locals of push
    cons,       \* the consumer process: pc and the locals of pop
    hist,       \* the completed push and pop calls, in order of return
    life,       \* the last create/open call and its result, if it was the last step
    prod2,      \* a second producer process, for a second Producer handle
    ord,        \* the memory ordering each kind of index access was last made with
    pending0    \* the records pending when the push in progress loaded head

vars == <<shm, requested, prod, cons, hist, life, prod2, ord, pending0>>

(***************************************************************************)
(* The segment and the header.                                             *)
(***************************************************************************)
NoSlots == [i \in {} |-> Uninit]

NoSegment ==
    [exists |-> FALSE, head |-> 0, tail |-> 0, capacity |-> 0, size |-> 0,
     slots |-> NoSlots]

\* the number of whole slots a mapping of `size` bytes holds after the header
SlotsIn(size) ==
    IF size < HeaderSize + RecordSize THEN 0 ELSE (size - HeaderSize) \div RecordSize

\* a create that forgets the sentinel slot
real_capacity_no_sentinel(capacity) == capacity % UsizeMod

\* capacity + 1, as usize
real_capacity(capacity) == (capacity + 1) % UsizeMod

\* size_of::<RingBufferHeader>() + real_capacity * size_of::<T>(), as usize
shmem_size(rc) == (HeaderSize + ((rc * RecordSize) % UsizeMod)) % UsizeMod

\* some step of the size computation leaves the range of usize
Overflows(capacity) ==
    \/ capacity + 1 >= UsizeMod
    \/ (capacity + 1) * RecordSize >= UsizeMod
    \/ HeaderSize + (capacity + 1) * RecordSize >= UsizeMod

\* the segment as create leaves it: head = 0, tail = 0, capacity = real_capacity
NewSegment(capacity) ==
    [exists |-> TRUE, head |-> 0, tail |-> 0,
     capacity |-> real_capacity(capacity),
     size |-> shmem_size(real_capacity(capacity)),
     slots |-> [i \in 0 .. (SlotsIn(shmem_size(real_capacity(capacity))) - 1) |-> Uninit]]

\* a create that maps and initialises whatever the name denotes
NameTaken_never(s) == FALSE

\* ShmemConf::create refuses a name that is already taken
NameTaken(s) == s.exists

\* ShmemConf::open finds the name
NameFound(s) == s.exists

(***************************************************************************)
(* Index arithmetic and slot access of push and pop.                       *)
(***************************************************************************)
\* a tail that is advanced without wrapping
next_tail_nowrap(tail, capacity) == tail + 1

next_tail(tail, capacity) == (tail + 1) % capacity

\* a head that wraps modulo the requested capacity instead of the slot count
next_head_short(head, capacity) == (head + 1) % (capacity - 1)

next_head(head, capacity) == (head + 1) % capacity

\* a full test that never fires
IsFull_never(nt, head) == FALSE

\* a full test that is off by one slot
IsFull_late(nt, head) == nt = head + 1

IsFull(nt, head) == nt = head

\* an empty test that never fires
IsEmpty_never(head, tail) == FALSE

IsEmpty(head, tail) == head = tail

\* a write that is not made before the tail is published
WriteSlot_none(slots, index, item) == slots

\* a write that goes to the slot after the one asked for
WriteSlot_next(slots, index, item) ==
    IF index + 1 \in DOMAIN slots THEN [slots EXCEPT ![index + 1] = item] ELSE slots

\* buffer_ptr(index).write(item); a write past the slot array lands outside it
WriteSlot(slots, index, item) ==
    IF index \in DOMAIN slots THEN [slots EXCEPT ![index] = item] ELSE slots

\* the values buffer_ptr(index).read() can yield: the record written there, or
\* any bit pattern when the slot was never written or lies past the slot array
ReadSlot(slots, index) ==
    IF index \in DOMAIN slots /\ slots[index] # Uninit THEN {slots[index]} ELSE Values

Idle == [pc |-> "idle", head |-> 0, tail |-> 0, item |-> NoItem]
NoHandle == [pc |-> "nohandle", head |-> 0, tail |-> 0, item |-> NoItem]
Panicked == [pc |-> "panicked", head |-> 0, tail |-> 0, item |-> NoItem]

NoLife == [op |-> "none", cap |-> 0, res |-> "none"]

\* the Ordering arguments of the index loads and stores
push_head_order == "Relaxed"
push_tail_order == "Acquire"
push_store_order == "Release"
pop_head_order == "Relaxed"
pop_tail_order == "Acquire"
pop_store_order == "Release"

NoOrd ==
    [push_head |-> "none", push_tail |-> "none", push_store |-> "none",
     pop_head |-> "none", pop_tail |-> "none", pop_store |-> "none"]

\* the records pushed and not yet popped, as the callers have seen them
Pending(h) ==
    Len(SelectSeq(h, LAMBDA e : e.op = "push" /\ e.res = "Ok"))
        - Len(SelectSeq(h, LAMBDA e : e.op = "pop" /\ e.res = "Some"))

PushEvent(item, res, back) == [op |-> "push", arg |-> item, res |-> res, val |-> back]
PopEvent(res, item) == [op |-> "pop", arg |-> NoItem, res |-> res, val |-> item]

(***************************************************************************)
(* Initially no segment exists and neither process holds a handle.         *)
(***************************************************************************)
Init ==
    /\ shm = NoSegment
    /\ requested = 0
    /\ prod = NoHandle
    /\ cons = NoHandle
    /\ hist = << >>
    /\ life = NoLife
    /\ prod2 = NoHandle
    /\ ord = NoOrd
    /\ pending0 = 0

(***************************************************************************)
(* Consumer::create(name, capacity).  checks: the build traps arithmetic   *)
(* overflow (a panic) instead of wrapping.  granted: the operating system  *)
(* grants the allocation.                                                  *)
(***************************************************************************)
create(capacity, checks, granted) ==
    IF checks /\ Overflows(capacity)
    THEN /\ life' = [op |-> "create", cap |-> capacity, res |-> "Panic"]
         /\ UNCHANGED <<shm, requested, prod, cons, hist, prod2, ord, pending0>>
    ELSE IF NameTaken(shm) \/ ~granted
    THEN /\ life' = [op |-> "create", cap |-> capacity, res |-> "Err"]
         /\ UNCHANGED <<shm, requested, prod, cons, hist, prod2, ord, pending0>>
    ELSE /\ shm' = NewSegment(capacity)
         /\ requested' = capacity
         /\ cons' = Idle
         /\ life' = [op |-> "create", cap |-> capacity, res |-> "Ok"]
         /\ UNCHANGED <<prod, hist, prod2, ord, pending0>>

(***************************************************************************)
(* Producer::open(name).                                                   *)
(***************************************************************************)
\* an open that initializes the header the way create does
open_reinit(granted) ==
    /\ prod.pc \in {"nohandle", "idle"}
    /\ IF NameFound(shm) /\ granted
       THEN /\ prod' = Idle
            /\ shm' = [shm EXCEPT !.head = 0, !.tail = 0]
            /\ life' = [op |-> "open", cap |-> 0, res |-> "Ok"]
       ELSE /\ life' = [op |-> "open", cap |-> 0, res |-> "Err"]
            /\ UNCHANGED <<prod, shm>>
    /\ UNCHANGED <<requested, cons, hist, prod2, ord, pending0>>

open(granted) ==
    /\ prod.pc \in {"nohandle", "idle"}
    /\ IF NameFound(shm) /\ granted
       THEN /\ prod' = Idle
            /\ life' = [op |-> "open", cap |-> 0, res |-> "Ok"]
       ELSE /\ life' = [op |-> "open", cap |-> 0, res |-> "Err"]
            /\ UNCHANGED prod
    /\ UNCHANGED <<shm, requested, cons, hist, prod2, ord, pending0>>

(***************************************************************************)
(* Producer::push(item).                                                   *)
(***************************************************************************)
\* the call, and header.head.load(Relaxed)
push_load_head(item) ==
    /\ prod.pc = "idle"
    /\ prod' = [pc |-> "push_load_tail", head |-> shm.head, tail |-> 0, item |-> item]
    /\ ord' = [ord EXCEPT !.push_head = push_head_order]
    /\ pending0' = Pending(hist)
    /\ life' = NoLife
    /\ UNCHANGED <<shm, requested, cons, hist, prod2>>

\* a push that waits for room: when full it loads head again instead of returning
push_load_tail_spin ==
    /\ prod.pc = "push_load_tail"
    /\ life' = NoLife
    /\ IF shm.capacity = 0
       THEN /\ prod' = Panicked
            /\ UNCHANGED hist
       ELSE IF IsFull(next_tail(shm.tail, shm.capacity), prod.head)
       THEN /\ prod' = [prod EXCEPT !.head = shm.head]
            /\ UNCHANGED hist
       ELSE /\ prod' = [prod EXCEPT !.pc = "push_write", !.tail = shm.tail]
            /\ UNCHANGED hist
    /\ ord' = [ord EXCEPT !.push_tail = push_tail_order]
    /\ UNCHANGED <<shm, requested, cons, prod2, pending0>>

\* header.tail.load(Acquire), next_tail, and the return of Err(item) when full
push_load_tail ==
    /\ prod.pc = "push_load_tail"
    /\ life' = NoLife
    /\ IF shm.capacity = 0
       THEN /\ prod' = Panicked
            /\ UNCHANGED hist
       ELSE IF IsFull(next_tail(shm.tail, shm.capacity), prod.head)
       THEN /\ prod' = Idle
            /\ hist' = Append(hist, PushEvent(prod.item, "Err", prod.item))
       ELSE /\ prod' = [prod EXCEPT !.pc = "push_write", !.tail = shm.tail]
            /\ UNCHANGED hist
    /\ ord' = [ord EXCEPT !.push_tail = push_tail_order]
    /\ UNCHANGED <<shm, requested, cons, prod2, pending0>>

\* self.rb.buffer_ptr(tail).write(item)
push_write ==
    /\ prod.pc = "push_write"
    /\ shm' = [shm EXCEPT !.slots = WriteSlot(shm.slots, prod.tail, prod.item)]
    /\ prod' = [prod EXCEPT !.pc = "push_store"]
    /\ life' = NoLife
    /\ UNCHANGED <<requested, cons, hist, prod2, ord, pending0>>

\* header.tail.store(next_tail, Release) and the return of Ok(())
push_store ==
    /\ prod.pc = "push_store"
    /\ shm' = [shm EXCEPT !.tail = next_tail(prod.tail, shm.capacity)]
    /\ hist' = Append(hist, PushEvent(prod.item, "Ok", NoItem))
    /\ prod' = Idle
    /\ ord' = [ord EXCEPT !.push_store = push_store_order]
    /\ life' = NoLife
    /\ UNCHANGED <<requested, cons, prod2, pending0>>

(***************************************************************************)
(* Consumer::pop().                                                        *)
(***************************************************************************)
\* the call, and header.head.load(Relaxed)
pop_load_head ==
    /\ cons.pc = "idle"
    /\ cons' = [pc |-> "pop_load_tail", head |-> shm.head, tail |-> 0, item |-> NoItem]
    /\ ord' = [ord EXCEPT !.pop_head = pop_head_order]
    /\ life' = NoLife
    /\ UNCHANGED <<shm, requested, prod, hist, prod2, pending0>>

\* header.tail.load(Acquire) and the return of None when empty
pop_load_tail ==
    /\ cons.pc = "pop_load_tail"
    /\ life' = NoLife
    /\ IF IsEmpty(cons.head, shm.tail)
       THEN /\ cons' = Idle
            /\ hist' = Append(hist, PopEvent("None", NoItem))
       ELSE /\ cons' = [cons EXCEPT !.pc = "pop_read", !.tail = shm.tail]
            /\ UNCHANGED hist
    /\ ord' = [ord EXCEPT !.pop_tail = pop_tail_order]
    /\ UNCHANGED <<shm, requested, prod, prod2, pending0>>

\* self.rb.buffer_ptr(head).read()
pop_read ==
    /\ cons.pc = "pop_read"
    /\ \E item \in ReadSlot(shm.slots, cons.head) :
          cons' = [cons EXCEPT !.pc = "pop_store", !.item = item]
    /\ life' = NoLife
    /\ UNCHANGED <<shm, requested, prod, hist, prod2, ord, pending0>>

\* header.head.store((head + 1) % capacity, Release) and the return of Some(item)
pop_store ==
    /\ cons.pc = "pop_store"
    /\ shm' = [shm EXCEPT !.head = next_head(cons.head, shm.capacity)]
    /\ hist' = Append(hist, PopEvent("Some", cons.item))
    /\ cons' = Idle
    /\ ord' = [ord EXCEPT !.pop_store = pop_store_order]
    /\ life' = NoLife
    /\ UNCHANGED <<requested, prod, prod2, pending0>>

(***************************************************************************)
(* A second producer handle on the same segment: Producer::open(name) and  *)
(* Producer::push(item) once more, with the handle's own locals.           *)
(***************************************************************************)
open2(granted) ==
    /\ prod2.pc \in {"nohandle", "idle"}
    /\ IF NameFound(shm) /\ granted
       THEN /\ prod2' = Idle
            /\ life' = [op |-> "open", cap |-> 0, res |-> "Ok"]
       ELSE /\ life' = [op |-> "open", cap |-> 0, res |-> "Err"]
            /\ UNCHANGED prod2
    /\ UNCHANGED <<shm, requested, prod, cons, hist, ord, pending0>>

push2_load_head(item) ==
    /\ prod2.pc = "idle"
    /\ prod2' = [pc |-> "push_load_tail", head |-> shm.head, tail |-> 0, item |-> item]
    /\ ord' = [ord EXCEPT !.push_head = push_head_order]
    /\ life' = NoLife
    /\ UNCHANGED <<shm, requested, prod, cons, hist, pending0>>

push2_load_tail ==
    /\ prod2.pc = "push_load_tail"
    /\ life' = NoLife
    /\ IF shm.capacity = 0
       THEN /\ prod2' = Panicked
            /\ UNCHANGED hist
       ELSE IF IsFull(next_tail(shm.tail, shm.capacity), prod2.head)
       THEN /\ prod2' = Idle
            /\ hist' = Append(hist, PushEvent(prod2.item, "Err", prod2.item))
       ELSE /\ prod2' = [prod2 EXCEPT !.pc = "push_write", !.tail = shm.tail]
            /\ UNCHANGED hist
    /\ ord' = [ord EXCEPT !.push_tail = push_tail_order]
    /\ UNCHANGED <<shm, requested, prod, cons, pending0>>

push2_write ==
    /\ prod2.pc = "push_write"
    /\ shm' = [shm EXCEPT !.slots = WriteSlot(shm.slots, prod2.tail, prod2.item)]
    /\ prod2' = [prod2 EXCEPT !.pc = "push_store"]
    /\ life' = NoLife
    /\ UNCHANGED <<requested, prod, cons, hist, ord, pending0>>

\* a tail store that arbitrates between writers: compare-and-swap on tail,
\* Err(item) when another writer has moved tail since the load
push2_store_cas ==
    /\ prod2.pc = "push_store"
    /\ IF shm.tail = prod2.tail
       THEN /\ shm' = [shm EXCEPT !.tail = next_tail(prod2.tail, shm.capacity)]
            /\ hist' = Append(hist, PushEvent(prod2.item, "Ok", NoItem))
       ELSE /\ hist' = Append(hist, PushEvent(prod2.item, "Err", prod2.item))
            /\ UNCHANGED shm
    /\ prod2' = Idle
    /\ ord' = [ord EXCEPT !.push_store = push_store_order]
    /\ life' = NoLife
    /\ UNCHANGED <<requested, prod, cons, pending0>>

push2_store ==
    /\ prod2.pc = "push_store"
    /\ shm' = [shm EXCEPT !.tail = next_tail(prod2.tail, shm.capacity)]
    /\ hist' = Append(hist, PushEvent(prod2.item, "Ok", NoItem))
    /\ prod2' = Idle
    /\ ord' = [ord EXCEPT !.push_store = push_store_order]
    /\ life' = NoLife
    /\ UNCHANGED <<requested, prod, cons, pending0>>

(***************************************************************************)
(* One producer and one consumer, running concurrently on a segment        *)
(* created with a capacity for which the size computation is exact.        *)
(***************************************************************************)
MayCall == Len(hist) + (IF prod.pc \in {"idle", "nohandle", "panicked"} THEN 0 ELSE 1)
                     + (IF cons.pc \in {"idle", "nohandle", "panicked"} THEN 0 ELSE 1)
              < MaxCalls

Next ==
    \/ \E capacity \in Capacities, checks \in BOOLEAN, granted \in BOOLEAN :
          create(capacity, checks, granted)
    \/ \E granted \in BOOLEAN : open(granted)
    \/ \E item \in Values : MayCall /\ push_load_head(item)
    \/ push_load_tail
    \/ push_write
    \/ push_store
    \/ MayCall /\ pop_load_head
    \/ pop_load_tail
    \/ pop_read
    \/ pop_store

Spec == Init /\ [][Next]_vars

(***************************************************************************)
(* The same segment with two producer handles and one consumer, all        *)
(* running concurrently.                                                   *)
(***************************************************************************)
MayCallTwo == Len(hist) + (IF prod.pc \in {"idle", "nohandle", "panicked"} THEN 0 ELSE 1)
                        + (IF prod2.pc \in {"idle", "nohandle", "panicked"} THEN 0 ELSE 1)
                        + (IF cons.pc \in {"idle", "nohandle", "panicked"} THEN 0 ELSE 1)
                 < MaxCallsTwo

NextTwo ==
    \/ \E capacity \in Capacities, checks \in BOOLEAN, granted \in BOOLEAN :
          create(capacity, checks, granted)
    \/ \E granted \in BOOLEAN : open(granted)
    \/ \E granted \in BOOLEAN : open2(granted)
    \/ \E item \in Values : MayCallTwo /\ push_load_head(item)
    \/ push_load_tail
    \/ push_write
    \/ push_store
    \/ \E item \in Values : MayCallTwo /\ push2_load_head(item)
    \/ push2_load_tail
    \/ push2_write
    \/ push2_store
    \/ MayCallTwo /\ pop_load_head
    \/ pop_load_tail
    \/ pop_read
    \/ pop_store

SpecTwo == Init /\ [][NextTwo]_vars

(***************************************************************************)
(* The same program without concurrent access: a push starts only while no *)
(* pop is in progress, and a pop only while no push is in progress.        *)
(***************************************************************************)
InPush == prod.pc \in {"push_load_tail", "push_write", "push_store"}
InPop == cons.pc \in {"pop_load_tail", "pop_read", "pop_store"}

NextSeq ==
    \/ \E capacity \in Capacities, checks \in BOOLEAN, granted \in BOOLEAN :
          create(capacity, checks, granted)
    \/ \E granted \in BOOLEAN : open(granted)
    \/ \E item \in Values : MayCall /\ ~InPop /\ push_load_head(item)
    \/ push_load_tail
    \/ push_write
    \/ push_store
    \/ MayCall /\ ~InPush /\ pop_load_head
    \/ pop_load_tail
    \/ pop_read
    \/ pop_store

SpecSeq == Init /\ [][NextSeq]_vars

(***************************************************************************)
(* create alone, over every capacity argument a usize can hold.            *)
(***************************************************************************)
NextCreate ==
    \E capacity \in Usize, checks \in BOOLEAN, granted \in BOOLEAN :
        create(capacity, checks, granted)

SpecCreate == Init /\ [][NextCreate]_vars

(***************************************************************************)
(* The scenario of main's buffer: create(name, 10), then the values        *)
(* 0, 1, 2, ... are pushed in order (one more than the requested capacity  *)
(* at most), and once the first pop has started only pops follow.          *)
(***************************************************************************)
PushEvents == SelectSeq(hist, LAMBDA e : e.op = "push")
PopEvents == SelectSeq(hist, LAMBDA e : e.op = "pop")

NextScenario ==
    \/ \E checks \in BOOLEAN, granted \in BOOLEAN :
          create(ScenarioCap, checks, granted)
    \/ \E granted \in BOOLEAN : open(granted)
    \/ /\ ~InPop
       /\ Len(PopEvents) = 0
       /\ Len(hist) <= ScenarioCap
       /\ push_load_head(Len(hist))
    \/ push_load_tail
    \/ push_write
    \/ push_store
    \/ /\ ~InPush
       /\ Len(PopEvents) <= ScenarioCap
       /\ pop_load_head
    \/ pop_load_tail
    \/ pop_read
    \/ pop_store

SpecScenario == Init /\ [][NextScenario]_vars

(***************************************************************************)
(* What the callers have observed.                                         *)
(***************************************************************************)
\* the values of the successful pushes, in order of return
Pushed ==
    LET ok == SelectSeq(hist, LAMBDA e : e.op = "push" /\ e.res = "Ok")
    IN  [i \in 1 .. Len(ok) |-> ok[i].arg]

\* the values of the successful pops, in order of return
Popped ==
    LET ok == SelectSeq(hist, LAMBDA e : e.op = "pop" /\ e.res = "Some")
    IN  [i \in 1 .. Len(ok) |-> ok[i].val]

Last(s) == s[Len(s)]

(***************************************************************************)
(* C1.  With one producer and one consumer running concurrently, the       *)
(* number of successful pops never exceeds the number of successful        *)
(* pushes, and the i-th successful pop returns the value of the i-th       *)
(* successful push.                                                        *)
(***************************************************************************)
C1_Fifo ==
    /\ Len(Popped) <= Len(Pushed)
    /\ \A i \in 1 .. Len(Popped) : Popped[i] = Pushed[i]

\* two different values have been popped, the last return was a pop, and it
\* came while a later push was between its slot write and its tail store
C1_Witness ==
    /\ Len(Popped) >= 2
    /\ Popped[1] # Popped[2]
    /\ Last(hist).op = "pop"
    /\ prod.pc = "push_store"

(***************************************************************************)
(* C2.  On a buffer freshly created with a requested capacity c >= 1, a    *)
(* pop that returns before any push does returns None, and as long as no   *)
(* pop has returned, the first c pushes return Ok and push number c + 1    *)
(* returns Err.                                                            *)
(***************************************************************************)
OnlyPushes(n) == \A j \in 1 .. n : hist[j].op = "push"

C2_FreshBuffer ==
    (shm.exists /\ requested >= 1) =>
        /\ (hist # << >> /\ hist[1].op = "pop") => hist[1].res = "None"
        /\ \A i \in 1 .. Len(hist) :
              OnlyPushes(i) =>
                  /\ (i <= requested => hist[i].res = "Ok")
                  /\ (i = requested + 1 => hist[i].res = "Err")

\* a buffer of requested capacity 2 has taken two pushes and refused the third
C2_Witness ==
    /\ shm.exists
    /\ requested = 2
    /\ Len(hist) = 3
    /\ OnlyPushes(3)
    /\ hist[1].res = "Ok"
    /\ hist[2].res = "Ok"
    /\ hist[3].res = "Err"

(***************************************************************************)
(* C3.  As stated: after create(name, 10) the pushes of 0..8 succeed and   *)
(* the 10th push (value 9) fails; then 9 pops return 0..8 and the 10th pop *)
(* returns nothing.                                                        *)
(***************************************************************************)
C3_Original ==
    /\ \A i \in 1 .. Len(hist) :
          (i <= 10 /\ hist[i].op = "push") =>
              hist[i].res = (IF i <= 9 THEN "Ok" ELSE "Err")
    /\ Len(PushEvents) = 10 =>
          \A j \in 1 .. Len(PopEvents) :
              /\ (j <= 9 => PopEvents[j] = PopEvent("Some", j - 1))
              /\ (j = 10 => PopEvents[j] = PopEvent("None", NoItem))

(***************************************************************************)
(* C3, amended.  After create(name, 10) the pushes of 0..9 all succeed     *)
(* and an 11th push fails with full; after the ten pushes, 10 pops return  *)
(* 0..9 in order and the 11th pop returns nothing.                         *)
(***************************************************************************)
C3_Scenario ==
    /\ \A i \in 1 .. Len(hist) :
          hist[i].op = "push" =>
              /\ (i <= 10 => hist[i] = PushEvent(i - 1, "Ok", NoItem))
              /\ (i = 11 => hist[i] = PushEvent(10, "Err", 10))
    /\ Len(PushEvents) = 10 =>
          \A j \in 1 .. Len(PopEvents) :
              /\ (j <= 10 => PopEvents[j] = PopEvent("Some", j - 1))
              /\ (j = 11 => PopEvents[j] = PopEvent("None", NoItem))

\* the ten values were pushed and eleven pops have returned
C3_Witness ==
    /\ requested = 10
    /\ Len(PushEvents) = 10
    /\ Len(PopEvents) = 11
    /\ Last(hist) = PopEvent("None", NoItem)

(***************************************************************************)
(* C4.  Without concurrent access, on a fresh buffer of requested capacity *)
(* c: when the first n <= c calls are pushes of distinct values, they all  *)
(* succeed, the pops that follow return those values in the same order,    *)
(* and after n pops the buffer is empty (head = tail, a further pop        *)
(* returns None).                                                          *)
(***************************************************************************)
Distinct(n) == \A i, j \in 1 .. n : i # j => hist[i].arg # hist[j].arg

\* the calls n + 1 .. n + j of the history are pops
PopsAfter(n, j) == n + j <= Len(hist) /\ \A k \in 1 .. j : hist[n + k].op = "pop"

Quiescent == ~InPush /\ ~InPop

C4_RoundTrip ==
    shm.exists =>
        \A n \in 0 .. requested :
            (n <= Len(hist) /\ OnlyPushes(n) /\ Distinct(n)) =>
                /\ \A i \in 1 .. n : hist[i].res = "Ok"
                /\ \A j \in 1 .. n :
                      PopsAfter(n, j) => hist[n + j] = PopEvent("Some", hist[j].arg)
                /\ (PopsAfter(n, n) /\ Len(hist) = 2 * n /\ Quiescent) =>
                      shm.head = shm.tail
                /\ PopsAfter(n, n + 1) => hist[2 * n + 1] = PopEvent("None", NoItem)

\* two different values went through a buffer of requested capacity 2 and came
\* back in order, and the third pop found it empty
C4_Witness ==
    /\ requested = 2
    /\ Len(hist) = 5
    /\ OnlyPushes(2)
    /\ Distinct(2)
    /\ PopsAfter(2, 3)
    /\ hist[3].val = hist[1].arg
    /\ hist[4].val = hist[2].arg
    /\ hist[5].res = "None"

(***************************************************************************)
(* C5.  As stated, for every requested capacity c: after k * c push/pop    *)
(* pairs in strict alternation every push and pop of the pairs has         *)
(* succeeded, the buffer is empty (head = tail, a pop returns None) and a  *)
(* further push returns Ok.                                                *)
(***************************************************************************)
\* the first m calls alternate: push, pop, push, pop, ...
Alternating(m) ==
    /\ m <= Len(hist)
    /\ \A i \in 1 .. m : hist[i].op = (IF i % 2 = 1 THEN "push" ELSE "pop")

WrapsAfter(m) ==
    Alternating(m) =>
        /\ \A i \in 1 .. m : hist[i].res = (IF i % 2 = 1 THEN "Ok" ELSE "Some")
        /\ (Len(hist) = m /\ Quiescent) => shm.head = shm.tail
        /\ (Len(hist) > m /\ hist[m + 1].op = "pop") => hist[m + 1].res = "None"
        /\ (Len(hist) > m /\ hist[m + 1].op = "push") => hist[m + 1].res = "Ok"

C5_Original ==
    shm.exists => \A k \in 0 .. MaxCalls : WrapsAfter(2 * k * requested)

(***************************************************************************)
(* C5, amended.  The same for every requested capacity c >= 1 (a buffer of *)
(* requested capacity 0 has the sentinel slot alone and refuses every      *)
(* push).                                                                  *)
(***************************************************************************)
C5_Wraparound ==
    (shm.exists /\ requested >= 1) =>
        \A k \in 0 .. MaxCalls : WrapsAfter(2 * k * requested)

\* requested capacity 2: two pairs went through, and the push after them wrapped
\* the tail around to slot 0
C5_Witness ==
    /\ requested = 2
    /\ Len(hist) = 5
    /\ Alternating(4)
    /\ hist[5] = PushEvent(hist[5].arg, "Ok", NoItem)
    /\ shm.head = 2
    /\ shm.tail = 0

(***************************************************************************)
(* C6.  A push that finds the buffer full, (tail + 1) mod capacity = head  *)
(* for the head and tail it loaded, returns Err with the item it was       *)
(* given in that very step: it writes no slot, leaves the header as it is  *)
(* and does not go back to load again.                                     *)
(***************************************************************************)
C6_FullRejects ==
    [][(/\ prod.pc = "push_load_tail"
        /\ prod' # prod
        /\ shm.capacity > 0
        /\ (shm.tail + 1) % shm.capacity = prod.head)
          => /\ hist' = Append(hist, PushEvent(prod.item, "Err", prod.item))
             /\ prod'.pc = "idle"
             /\ shm' = shm]_vars

\* a buffer that holds a record has just refused a push and handed the item back
C6_Witness ==
    /\ hist # << >>
    /\ Last(hist).op = "push"
    /\ Last(hist).res = "Err"
    /\ Last(hist).val = Last(hist).arg
    /\ prod.pc = "idle"
    /\ requested >= 1
    /\ (shm.tail + 1) % shm.capacity = shm.head
    /\ shm.slots[shm.head] # Uninit

(***************************************************************************)
(* C7.  A pop that finds the buffer empty, head = tail for the head and    *)
(* tail it loaded, returns None in that very step: it reads no slot and    *)
(* leaves head, tail, capacity and every slot as they are.                 *)
(***************************************************************************)
C7_EmptyReturnsNone ==
    [][(/\ cons.pc = "pop_load_tail"
        /\ cons' # cons
        /\ cons.head = shm.tail)
          => /\ hist' = Append(hist, PopEvent("None", NoItem))
             /\ cons' = Idle
             /\ shm' = shm]_vars

\* a buffer that has been filled and drained has just answered a pop with None
C7_Witness ==
    /\ hist # << >>
    /\ Last(hist) = PopEvent("None", NoItem)
    /\ cons.pc = "idle"
    /\ Len(Popped) >= 1
    /\ shm.head = shm.tail
    /\ shm.head # 0

(***************************************************************************)
(* C8.  An open while no segment exists fails and creates none; a create   *)
(* while the segment exists fails and leaves its header and slots as they  *)
(* are.                                                                    *)
(***************************************************************************)
C8_LifecycleErrors ==
    [][/\ (life'.op = "open" /\ ~shm.exists) =>
              (life'.res = "Err" /\ ~shm'.exists /\ prod' = prod)
       /\ (life'.op = "create" /\ shm.exists) =>
              (life'.res = "Err" /\ shm' = shm)]_vars

\* the producer's open has just failed because nothing was created yet, and
\* there is still no segment
C8_Witness ==
    /\ life.op = "open"
    /\ life.res = "Err"
    /\ ~shm.exists
    /\ prod.pc = "nohandle"

(***************************************************************************)
(* C9.  create does not succeed whenever capacity + 1 or the byte size     *)
(* overflows usize (it returns a create error; a build that traps the      *)
(* overflow and aborts is counted as failing too), and no segment ever has *)
(* capacity 0 or fewer bytes than header_size + capacity * record_size.    *)
(***************************************************************************)
C9_OverflowRejected ==
    /\ (life.op = "create" /\ Overflows(life.cap)) => life.res # "Ok"
    /\ shm.exists =>
          /\ shm.capacity # 0
          /\ shm.size >= HeaderSize + shm.capacity * RecordSize

(***************************************************************************)
(* C10.  push and pop do not block: a call in progress can always take its *)
(* next step, whatever the other process is doing, and every step of a     *)
(* call either moves it strictly forward or returns, so a call returns     *)
(* within four of its own steps.                                           *)
(***************************************************************************)
Rank(pc) ==
    CASE pc \in {"push_load_tail", "pop_load_tail"} -> 1
      [] pc \in {"push_write", "pop_read"} -> 2
      [] pc \in {"push_store", "pop_store"} -> 3
      [] OTHER -> 0

ProducerStep == push_load_tail \/ push_write \/ push_store
ConsumerStep == pop_load_tail \/ pop_read \/ pop_store

Forward(p, q) == q.pc \in {"idle", "panicked"} \/ Rank(q.pc) > Rank(p.pc)

C10_NonBlocking ==
    /\ [](InPush => ENABLED ProducerStep)
    /\ [](InPop => ENABLED ConsumerStep)
    /\ [][(InPush /\ prod' # prod) => Forward(prod, prod')]_vars
    /\ [][(InPop /\ cons' # cons) => Forward(cons, cons')]_vars

\* a push has just returned Err while the consumer was in the middle of a pop
C10_Witness ==
    /\ hist # << >>
    /\ Last(hist).op = "push"
    /\ Last(hist).res = "Err"
    /\ prod.pc = "idle"
    /\ cons.pc = "pop_store"

(***************************************************************************)
(* C11.  Once create has succeeded, capacity is the requested capacity     *)
(* plus one and, under every interleaving of one producer's pushes and one *)
(* consumer's pops, 0 <= head < capacity and 0 <= tail < capacity.         *)
(***************************************************************************)
C11_IndexRange ==
    shm.exists =>
        /\ shm.capacity = requested + 1
        /\ shm.head \in 0 .. (shm.capacity - 1)
        /\ shm.tail \in 0 .. (shm.capacity - 1)

\* requested capacity 2: the third push has wrapped the tail to slot 0 while a
\* pop is in progress
C11_Witness ==
    /\ requested = 2
    /\ Len(Pushed) = 3
    /\ shm.tail = 0
    /\ shm.head = 1
    /\ InPop

(***************************************************************************)
(* C12.  No slot is written by a push and read by a pop at the same time:  *)
(* when a push is between its full test and its tail store (slot t) and a  *)
(* pop is between its empty test and its head store (slot h), t # h; and   *)
(* the slot a push writes never holds a record that has been pushed and    *)
(* not yet popped, whatever head the push had loaded.                      *)
(***************************************************************************)
PushAccess == prod.pc \in {"push_write", "push_store"}
PopAccess == cons.pc \in {"pop_read", "pop_store"}

\* the slots of the records the callers have pushed and not yet popped
UnreadSlots == {(shm.head + k) % shm.capacity : k \in 0 .. (Pending(hist) - 1)}

C12_NoSlotConflict ==
    /\ (PushAccess /\ PopAccess) => prod.tail # cons.head
    /\ PushAccess => prod.tail \notin UnreadSlots

\* a push is about to write slot 2 while a pop is about to read slot 1
C12_Witness ==
    /\ prod.pc = "push_write"
    /\ cons.pc = "pop_read"
    /\ prod.tail = 2
    /\ cons.head = 1
    /\ UnreadSlots = {1}

(***************************************************************************)
(* C13.  Every slot from head (inclusive) to tail (exclusive), modulo      *)
(* capacity, holds the record that a push wrote there before it advanced   *)
(* the tail past it; so a pop that has seen head # tail reads a written    *)
(* slot and returns the record that is next in push order.                 *)
(***************************************************************************)
Occupancy == (shm.tail - shm.head) % shm.capacity

C13_PublishedSlotsWritten ==
    (shm.exists /\ shm.capacity > 0) =>
        /\ \A k \in 0 .. (Occupancy - 1) :
              /\ Len(Popped) + k + 1 <= Len(Pushed)
              /\ shm.slots[(shm.head + k) % shm.capacity] = Pushed[Len(Popped) + k + 1]
        /\ cons.pc = "pop_read" => shm.slots[cons.head] # Uninit
        /\ cons.pc = "pop_store" => cons.item = Pushed[Len(Popped) + 1]

\* two records are published, in slots 1 and 2 with the tail wrapped to 0, and a
\* pop has just read the first of them
C13_Witness ==
    /\ shm.exists
    /\ requested = 2
    /\ Occupancy = 2
    /\ shm.head = 1
    /\ cons.pc = "pop_store"
    /\ cons.item = shm.slots[1]
    /\ shm.slots[1] # shm.slots[2]

(***************************************************************************)
(* C14.  Index ownership.  After create, capacity never changes; tail      *)
(* changes only in the tail store of a push and head only in the head      *)
(* store of a pop; the slot array changes only in the slot write of a      *)
(* push, and only at index tail; a pop reads the slot at index head and    *)
(* no step of a pop changes tail or a slot.                                *)
(***************************************************************************)
C14_IndexOwnership ==
    [][shm.exists =>
          /\ shm'.exists
          /\ shm'.capacity = shm.capacity
          /\ shm'.tail # shm.tail => (prod.pc = "push_store" /\ prod'.pc = "idle")
          /\ shm'.head # shm.head => (cons.pc = "pop_store" /\ cons'.pc = "idle")
          /\ shm'.slots # shm.slots =>
                /\ prod.pc = "push_write"
                /\ prod'.pc = "push_store"
                /\ \A i \in DOMAIN shm.slots :
                      i # shm.tail => shm'.slots[i] = shm.slots[i]
          /\ cons' # cons => (shm'.tail = shm.tail /\ shm'.slots = shm.slots)
          /\ prod' # prod => shm'.head = shm.head
          /\ (cons.pc = "pop_read" /\ cons'.pc = "pop_store") =>
                cons'.item = shm.slots[shm.head]]_vars

\* both indices have been advanced, and a push and a pop are both about to
\* store their index
C14_Witness ==
    /\ Len(Pushed) >= 2
    /\ Len(Popped) >= 1
    /\ prod.pc = "push_store"
    /\ cons.pc = "pop_store"
    /\ shm.head # 0
    /\ shm.tail # shm.head

(***************************************************************************)
(* C15.  Each role loads its own index relaxed and the peer's index with   *)
(* acquire, and stores its own index with release: push loads tail relaxed *)
(* and head acquire, pop loads head relaxed and tail acquire, so the       *)
(* release store of an index is paired with an acquire load of that index  *)
(* by the other role.                                                      *)
(***************************************************************************)
C15_OrderingDiscipline ==
    /\ ord.push_tail \in {"none", "Relaxed"}
    /\ ord.push_head \in {"none", "Acquire"}
    /\ ord.push_store \in {"none", "Release"}
    /\ ord.pop_head \in {"none", "Relaxed"}
    /\ ord.pop_tail \in {"none", "Acquire"}
    /\ ord.pop_store \in {"none", "Release"}

(***************************************************************************)
(* C16.  open on an existing segment does not initialize the header: in    *)
(* any state reached by earlier pushes and pops an open, successful or     *)
(* not, leaves head, tail, capacity and every slot unchanged, and the next *)
(* push through the handle writes the slot at the current tail and         *)
(* advances tail from there.                                               *)
(***************************************************************************)
C16_OpenKeepsHeader ==
    [][/\ life'.op = "open" =>
             /\ shm' = shm
             /\ hist' = hist
             /\ cons' = cons
             /\ life'.res = "Ok" => prod' = Idle
       /\ (prod.pc = "push_load_tail" /\ prod'.pc = "push_write") =>
             prod'.tail = shm.tail
       /\ (prod.pc = "push_write" /\ prod'.pc = "push_store") =>
             /\ prod.tail = shm.tail
             /\ shm'.slots[shm.tail] = prod.item
       /\ (prod.pc = "push_store" /\ prod'.pc = "idle") =>
             shm'.tail = (shm.tail + 1) % shm.capacity]_vars

\* the producer opens the segment again after pushes and pops have moved
\* both indices, while records are pending
C16_Witness ==
    /\ life.op = "open"
    /\ life.res = "Ok"
    /\ shm.head = 1
    /\ shm.tail = 0
    /\ Len(Pushed) = 3
    /\ shm.slots[2] # Uninit

(***************************************************************************)
(* C17.  Two producer handles pushing concurrently are not arbitrated and  *)
(* the collision is silent.  When a push stores tail although the other    *)
(* handle has already published the slot it wrote (both loaded the same    *)
(* tail), the store leaves tail where the other push put it, the push      *)
(* still returns Ok, no call panics, and from then on more pushes have     *)
(* returned Ok than records can be popped.  The interleaving is reachable: *)
(* two pushes of different values return Ok, one pop returns the second    *)
(* value and the next pop returns None.                                    *)
(***************************************************************************)
Colliding(h) == h.pc = "push_store" /\ shm.tail = next_tail(h.tail, shm.capacity)

C17_SilentCollision ==
    [][/\ (Colliding(prod) /\ prod'.pc = "idle") =>
             /\ shm' = shm
             /\ hist' = Append(hist, PushEvent(prod.item, "Ok", NoItem))
             /\ Pending(hist') > (shm'.tail - shm'.head) % shm'.capacity
       /\ (Colliding(prod2) /\ prod2'.pc = "idle") =>
             /\ shm' = shm
             /\ hist' = Append(hist, PushEvent(prod2.item, "Ok", NoItem))
             /\ Pending(hist') > (shm'.tail - shm'.head) % shm'.capacity
       /\ prod'.pc # "panicked"
       /\ prod2'.pc # "panicked"
       /\ cons'.pc # "panicked"]_vars

\* both pushes returned Ok, the first value pushed was overwritten and the
\* buffer is empty after one pop, which returned the second value
C17_Witness ==
    /\ Len(hist) = 3
    /\ hist[1].op = "push" /\ hist[1].res = "Ok"
    /\ hist[2].op = "push" /\ hist[2].res = "Ok"
    /\ hist[1].arg # hist[2].arg
    /\ hist[3] = PopEvent("Some", hist[2].arg)
    /\ shm.tail = 1
    /\ shm.head = 1
    /\ requested = 2
    /\ prod.pc = "idle" /\ prod2.pc = "idle" /\ cons.pc = "idle"

(***************************************************************************)
(* C18.  Occupancy accounting with one producer and one consumer.  While   *)
(* no push and no pop is in progress, (tail - head) mod capacity equals    *)
(* the number of pushes that returned Ok minus the number of pops that     *)
(* returned Some; in every state both numbers are between 0 and the        *)
(* requested capacity, and head = tail exactly when no record is pending.  *)
(***************************************************************************)
C18_OccupancyAccounting ==
    shm.exists =>
        /\ Quiescent => Occupancy = Pending(hist)
        /\ Occupancy \in 0 .. requested
        /\ Pending(hist) \in 0 .. requested
        /\ requested = shm.capacity - 1
        /\ shm.head = shm.tail <=> Pending(hist) = 0

\* a full buffer whose tail has wrapped to 0 behind a head that has advanced
C18_Witness ==
    /\ shm.exists
    /\ requested = 2
    /\ Quiescent
    /\ Pending(hist) = 2
    /\ Len(Popped) = 1
    /\ shm.tail = 0
    /\ shm.head = 1

(***************************************************************************)
(* C19.  No spurious rejection with one producer and one consumer.  A push *)
(* returns Err only if the buffer held exactly c = capacity - 1 pending    *)
(* records at an instant of the call (the instant it loaded head), and a   *)
(* pop returns None only if the buffer held no pending record at an        *)
(* instant of the call (the instant it loaded tail), although the peer may *)
(* change its index after the snapshot.                                    *)
(***************************************************************************)
C19_NoSpuriousRejection ==
    [][/\ (prod.pc = "push_load_tail" /\ prod'.pc = "idle") =>
             /\ hist' = Append(hist, PushEvent(prod.item, "Err", prod.item))
             /\ pending0 = shm.capacity - 1
       /\ (cons.pc = "pop_load_tail" /\ cons'.pc = "idle") =>
             /\ hist' = Append(hist, PopEvent("None", NoItem))
             /\ Pending(hist) = 0]_vars

\* a push has returned Err from a head snapshot taken while the buffer was
\* full, after a pop had already made room
C19_Witness ==
    /\ requested = 2
    /\ Len(hist) = 4
    /\ hist[3] = PopEvent("Some", hist[1].arg)
    /\ hist[4].op = "push" /\ hist[4].res = "Err"
    /\ pending0 = 2
    /\ Pending(hist) = 1

(***************************************************************************)
(* The polling callers of main: the producer pushes 0, 1, 2, ... and       *)
(* calls push again with the same item while push returns Err; the         *)
(* consumer calls pop again after None until it has received every item.   *)
(* A rejected call leaves no record, so the retry is a return to the       *)
(* caller's loop.                                                          *)
(***************************************************************************)
\* push's tail load and full test, inside `while producer.push(i).is_err()`
push_load_tail_poll ==
    /\ prod.pc = "push_load_tail"
    /\ life' = NoLife
    /\ IF shm.capacity = 0
       THEN prod' = Panicked
       ELSE IF IsFull(next_tail(shm.tail, shm.capacity), prod.head)
       THEN prod' = Idle
       ELSE prod' = [prod EXCEPT !.pc = "push_write", !.tail = shm.tail]
    /\ ord' = [ord EXCEPT !.push_tail = push_tail_order]
    /\ UNCHANGED <<shm, requested, cons, hist, prod2, pending0>>

\* a consumer that stops polling the first time pop returns None
pop_load_tail_quit ==
    /\ cons.pc = "pop_load_tail"
    /\ life' = NoLife
    /\ IF IsEmpty(cons.head, shm.tail)
       THEN cons' = NoHandle
       ELSE cons' = [cons EXCEPT !.pc = "pop_read", !.tail = shm.tail]
    /\ ord' = [ord EXCEPT !.pop_tail = pop_tail_order]
    /\ UNCHANGED <<shm, requested, prod, hist, prod2, pending0>>

\* pop's tail load and empty test, inside the consumer's `loop`
pop_load_tail_poll ==
    /\ cons.pc = "pop_load_tail"
    /\ life' = NoLife
    /\ IF IsEmpty(cons.head, shm.tail)
       THEN cons' = Idle
       ELSE cons' = [cons EXCEPT !.pc = "pop_read", !.tail = shm.tail]
    /\ ord' = [ord EXCEPT !.pop_tail = pop_tail_order]
    /\ UNCHANGED <<shm, requested, prod, hist, prod2, pending0>>

ProducerPoll ==
    \/ Len(Pushed) < MaxItems /\ push_load_head(Len(Pushed))
    \/ push_load_tail_poll
    \/ push_write
    \/ push_store

ConsumerPoll ==
    \/ Len(Popped) < MaxItems /\ pop_load_head
    \/ pop_load_tail_poll
    \/ pop_read
    \/ pop_store

NextPoll ==
    \/ \E capacity \in Capacities, checks \in BOOLEAN, granted \in BOOLEAN :
          create(capacity, checks, granted)
    \/ \E granted \in BOOLEAN : open(granted)
    \/ ProducerPoll
    \/ ConsumerPoll

\* each of the two processes keeps running: weak fairness of its steps
SpecPoll ==
    /\ Init
    /\ [][NextPoll]_vars
    /\ WF_vars(ProducerPoll)
    /\ WF_vars(ConsumerPoll)

(***************************************************************************)
(* C20.  Liveness under polling, for requested capacity c >= 1 and weak    *)
(* fairness of the producer and of the consumer: every item the producer   *)
(* attempts to push is eventually pushed with Ok, although calls may be    *)
(* rejected in between, and every item pushed with Ok is eventually        *)
(* returned by a pop.                                                      *)
(***************************************************************************)
C20_PollingLiveness ==
    \A i \in 0 .. (MaxItems - 1) :
        /\ (requested >= 1 /\ prod.pc = "push_load_tail" /\ prod.item = i)
               ~> (Len(Pushed) > i /\ Pushed[i + 1] = i)
        /\ (requested >= 1 /\ Len(Pushed) > i)
               ~> (Len(Popped) > i /\ Popped[i + 1] = i)

\* on a buffer of capacity 1 that is full again after a pop, the producer
\* is in a call for the next item that will be rejected and retried
C20_Witness ==
    /\ requested = 1
    /\ Pushed = <<0, 1>>
    /\ Popped = <<0>>
    /\ prod.pc = "push_load_tail"
    /\ prod.item = 2
    /\ IsFull(next_tail(shm.tail, shm.capacity), prod.head)
    /\ cons.pc = "pop_load_tail"

====
